---- MODULE Spec2Model ----
(***************************************************************************)
(* Blogicum (blog/views.py): the read views' querysets and the             *)
(* authorization gates of the views that create, edit and delete posts,    *)
(* comments and profiles.  One action per request handler; the database    *)
(* tables are the state, the last request and its response are `resp`.     *)
(***************************************************************************)
EXTENDS Integers, Sequences, FiniteSets, TLC

\* ------------------------------------------------------------------ bounds
MaxPosts == 2        \* primary keys the Post table hands out
MaxComments == 2     \* primary keys the Comment table hands out
MaxTime == 2         \* pub_date ranges over 1..MaxTime, the clock over 1..MaxTime + 1

\* ------------------------------------------------------------- data domains
Users == {"u1", "u2"}                      \* rows of the User table (primary keys)
Anon == "anon"                             \* request.user of a request without a session
Viewers == Users \cup {Anon}
Names == {"alice", "bob", "AnonymousUser"} \* usernames
None == "None"
Slugs == {"news", "hidden", "nope"}        \* category_slug values of a request path
Texts == {"t1", "t2"}
PostIds == 1..MaxPosts         \* the pk of a request path
CommentIds == 1..MaxComments   \* the comment_pk of a request path

\* The Category table: slug -> is_published ("nope" names no row).
Category == [news |-> TRUE, hidden |-> FALSE]
CategoryRows == DOMAIN Category

\* What a PostForm submits: every Post field but author (Meta.exclude).
\* title, text and location are carried by the one field `text`.
Form(pub, date, cat, text) ==
    [is_published |-> pub, pub_date |-> date, category |-> cat, text |-> text]

\* The submissions the read views are checked on: each publish gate open and
\* closed.
PostForm ==
    {Form(TRUE, 1, "news", "t1"), Form(TRUE, MaxTime, "news", "t2"),
     Form(FALSE, 1, "news", "t1"), Form(TRUE, 1, None, "t1"),
     Form(TRUE, 1, "hidden", "t2")}

\* The submissions the profile views are checked on: published or not.
DraftPostForm == {Form(pub, 1, "news", "t1") : pub \in BOOLEAN}

\* The submissions the write views are checked on: they differ in content.
PlainPostForm == {Form(TRUE, 1, "news", t) : t \in Texts}

\* What a CommentForm submits (Meta.fields).
CommentForm == Texts

\* What the profile form submits (ProfileUpdateView.fields).
ProfileForm ==
    [username : Names, first_name : {"", "F"}, last_name : {""}, email : {""}]

VARIABLES users, posts, comments, nextPost, nextComment, now, resp

vars == <<users, posts, comments, nextPost, nextComment, now, resp>>
db == <<users, posts, comments, nextPost, nextComment>>

\* ---------------------------------------------------------------- responses
OK == 200
Redirect == 302
NotFound == 404

Response(view, user, pk, cpk, name, author, status, to, topk, toname, body) ==
    [view |-> view, user |-> user, pk |-> pk, cpk |-> cpk, name |-> name,
     author |-> author, status |-> status, to |-> to, topk |-> topk,
     toname |-> toname, body |-> body]

NoResponse == Response("", Anon, 0, 0, "", None, 0, "", 0, "", <<>>)

\* ------------------------------------------------------------------ helpers
\* str(request.user), which the ORM compares a CharField with:
\* User.__str__ is the username, AnonymousUser.__str__ is "AnonymousUser".
Str(us, v) == IF v = Anon THEN "AnonymousUser" ELSE us[v].username

\* All orderings of the rows S.
Perms(S) ==
    {s \in [1..Cardinality(S) -> S] :
        \A i, j \in 1..Cardinality(S) : i # j => s[i] # s[j]}

\* .order_by("-pub_date"): the order among equal pub_date is the database's.
OrderByPubDateDesc(ps, S) ==
    {s \in Perms(S) :
        \A i, j \in 1..Cardinality(S) :
            i < j => ps[s[i]].pub_date >= ps[s[j]].pub_date}

\* ------------------------------------------------------------- the querysets
\* PostListFilter without its is_published=True condition.
PostListFilter_NoPublishedCheck(ps, t) ==
    {p \in DOMAIN ps :
        /\ ps[p].pub_date < t
        /\ ps[p].category \in CategoryRows
        /\ Category[ps[p].category]}

\* PostListView.get_queryset: the rows the filter keeps.  A post without a
\* category has no category row to join, so category__is_published=True
\* drops it.
PostListFilter(ps, t) ==
    {p \in DOMAIN ps :
        /\ ps[p].pub_date < t
        /\ ps[p].is_published
        /\ ps[p].category \in CategoryRows
        /\ Category[ps[p].category]}

PostListView_get_queryset(ps, t) == OrderByPubDateDesc(ps, PostListFilter(ps, t))

\* CategoryListView.get_queryset after the category was found.
CategoryListFilter(ps, t, slug) ==
    {p \in DOMAIN ps :
        /\ ps[p].category = slug
        /\ ps[p].pub_date < t
        /\ Category[slug]
        /\ ps[p].is_published}

\* get_object_or_404(Category, slug=..., is_published=True)
CategoryFound(slug) == slug \in CategoryRows /\ Category[slug]

CategoryListView_get_queryset(ps, t, slug) ==
    OrderByPubDateDesc(ps, CategoryListFilter(ps, t, slug))

\* PostDetailView.get_object: TRUE when the filtered queryset holds pk.
PostDetailView_get_object(ps, us, v, pk) ==
    /\ pk \in DOMAIN ps
    /\ \/ ps[pk].is_published
       \/ us[ps[pk].author].username = Str(us, v)

\* get_object_or_404(User, username=...): the rows with that username.
UserByName(us, name) == {u \in Users : us[u].username = name}

\* ProfileFilter with the public listings' is_published=True condition.
ProfileFilter_PublishedOnly(ps, u) ==
    {p \in DOMAIN ps : ps[p].author = u /\ ps[p].is_published}

ProfileFilter(ps, u) == {p \in DOMAIN ps : ps[p].author = u}

ProfileView_get_queryset(ps, u) == OrderByPubDateDesc(ps, ProfileFilter(ps, u))

\* --------------------------------------------------------------------- Init
\* The tables after two users registered and before any post was written.
Init ==
    /\ users = [u \in Users |->
                  [username |-> IF u = "u1" THEN "alice" ELSE "bob",
                   first_name |-> "", last_name |-> "", email |-> ""]]
    /\ posts = <<>>
    /\ comments = <<>>
    /\ nextPost = 1
    /\ nextComment = 1
    /\ now = 1
    /\ resp = NoResponse

\* -------------------------------------------------------------- read views
\* timezone.now() moves on between requests.
Tick ==
    /\ now <= MaxTime
    /\ now' = now + 1
    /\ resp' = NoResponse
    /\ UNCHANGED db

\* GET / : PostListView
PostList ==
    /\ \E s \in PostListView_get_queryset(posts, now) :
         resp' = Response("post_list", Anon, 0, 0, "", None, OK, "", 0, "", s)
    /\ UNCHANGED <<db, now>>

\* GET /category/<slug>/ : CategoryListView
CategoryList ==
    /\ \E slug \in Slugs :
         IF CategoryFound(slug)
         THEN \E s \in CategoryListView_get_queryset(posts, now, slug) :
                resp' = Response("category", Anon, 0, 0, slug, None, OK, "", 0, "", s)
         ELSE resp' = Response("category", Anon, 0, 0, slug, None, NotFound, "", 0, "", <<>>)
    /\ UNCHANGED <<db, now>>

\* GET /posts/<pk>/ : PostDetailView
PostDetail ==
    /\ \E v \in Viewers, pk \in PostIds :
         IF PostDetailView_get_object(posts, users, v, pk)
         THEN resp' = Response("post_detail", v, pk, 0, "", None, OK, "", 0, "", <<pk>>)
         ELSE resp' = Response("post_detail", v, pk, 0, "", None, NotFound, "", 0, "", <<>>)
    /\ UNCHANGED <<db, now>>

\* GET /profile/<username>/ : ProfileView
Profile ==
    /\ \E name \in Names :
         IF UserByName(users, name) = {}
         THEN resp' = Response("profile", Anon, 0, 0, name, None, NotFound, "", 0, "", <<>>)
         ELSE \E u \in UserByName(users, name) :
                \E s \in ProfileView_get_queryset(posts, u) :
                  resp' = Response("profile", Anon, 0, 0, name, None, OK, "", 0, "", s)
    /\ UNCHANGED <<db, now>>

\* ------------------------------------------------- the authorization gates
\* What a gate answers.
Login == "login"        \* LoginRequiredMixin.handle_no_permission: to the login page
Missing == "404"        \* get_object raised Http404
ToDetail == "redirect"  \* DispatchMixin: redirect to blog:post_detail
Proceed == "proceed"    \* the view's own handler runs

\* PostGate without DispatchMixin's comparison of the author.
PostGate_NoAuthorCheck(ps, v, pk) ==
    IF v = Anon THEN Login
    ELSE IF pk \notin DOMAIN ps THEN Missing
    ELSE Proceed

\* PostUpdateView, PostDeleteView (LoginRequiredMixin, DispatchMixin, ...):
\* LoginRequiredMixin.dispatch runs first, then DispatchMixin.dispatch, whose
\* get_object() is the generic one (the Post with the path's pk).
PostGate(ps, v, pk) ==
    IF v = Anon THEN Login
    ELSE IF pk \notin DOMAIN ps THEN Missing
    ELSE IF ps[pk].author # v THEN ToDetail
    ELSE Proceed

\* The pk DispatchMixin puts in its redirect: self.get_object().pk.
PostGateTarget(pk) == pk

\* CommentMixin_get_object without its post_id condition.
CommentMixin_get_object_AnyPost(cs, post_pk, comment_pk) ==
    comment_pk \in DOMAIN cs

\* CommentMixin.get_object: get_object_or_404(Comment, pk=comment_pk, post_id=post_pk)
CommentMixin_get_object(cs, post_pk, comment_pk) ==
    /\ comment_pk \in DOMAIN cs
    /\ cs[comment_pk].post = post_pk

\* CommentGate without DispatchMixin's comparison of the author.
CommentGate_NoAuthorCheck(cs, v, post_pk, comment_pk) ==
    IF ~CommentMixin_get_object(cs, post_pk, comment_pk) THEN Missing
    ELSE IF v = Anon THEN Login
    ELSE Proceed

\* CommentUpdateView, CommentDeleteView (CommentMixin, DispatchMixin,
\* LoginRequiredMixin, ...): DispatchMixin.dispatch runs first; whoever passes
\* it is the comment's author, hence authenticated, and passes
\* LoginRequiredMixin.dispatch.
CommentGate(cs, v, post_pk, comment_pk) ==
    IF ~CommentMixin_get_object(cs, post_pk, comment_pk) THEN Missing
    ELSE IF cs[comment_pk].author # v THEN ToDetail
    ELSE IF v = Anon THEN Login
    ELSE Proceed

\* The pk DispatchMixin puts in its redirect: self.get_object().pk, and
\* get_object() is the Comment here.
CommentGateTarget(post_pk, comment_pk) == comment_pk

\* ------------------------------------------------------------------- posts
\* The instance a valid PostForm builds for a new post: `author` is excluded
\* from the form, so the value the client sent for it is dropped, and
\* form_valid sets the requester.
PostCreateView_form_valid(v, form, sent) ==
    [author |-> v, is_published |-> form.is_published, pub_date |-> form.pub_date,
     category |-> form.category, text |-> form.text]

\* POST /posts/create/ : PostCreateView
PostCreate(forms) ==
    /\ \E v \in Viewers, sent \in Users :
         IF v = Anon
         THEN /\ resp' = Response("post_create", v, 0, 0, "", sent, Redirect, Login, 0, "", <<>>)
              /\ UNCHANGED db
         ELSE \/ /\ resp' = Response("post_create", v, 0, 0, "", sent, OK, "", 0, "", <<>>)
                 /\ UNCHANGED db
              \/ \E form \in forms :
                 /\ nextPost <= MaxPosts
                 /\ posts' = (nextPost :> PostCreateView_form_valid(v, form, sent)) @@ posts
                 /\ nextPost' = nextPost + 1
                 /\ resp' = Response("post_create", v, nextPost, 0, "", sent, Redirect,
                                     "profile", 0, users[v].username, <<>>)
                 /\ UNCHANGED <<users, comments, nextComment>>
    /\ UNCHANGED now

\* The instance a valid PostForm saves on edit: the form's fields, and
\* form_valid sets author to the requester.
PostUpdateView_form_valid(v, form) ==
    [author |-> v, is_published |-> form.is_published, pub_date |-> form.pub_date,
     category |-> form.category, text |-> form.text]

\* POST /posts/<pk>/edit/ : PostUpdateView.  Past the gate, an invalid
\* form is shown again (200) and a valid one is saved.
PostUpdate(forms) ==
    /\ \E v \in Viewers, pk \in PostIds :
         LET g == PostGate(posts, v, pk) IN
         CASE g = Login ->
                /\ resp' = Response("post_edit", v, pk, 0, "", None, Redirect, Login, 0, "", <<>>)
                /\ UNCHANGED posts
           [] g = Missing ->
                /\ resp' = Response("post_edit", v, pk, 0, "", None, NotFound, "", 0, "", <<>>)
                /\ UNCHANGED posts
           [] g = ToDetail ->
                /\ resp' = Response("post_edit", v, pk, 0, "", None, Redirect,
                                    "post_detail", PostGateTarget(pk), "", <<>>)
                /\ UNCHANGED posts
           [] g = Proceed ->
                \/ /\ resp' = Response("post_edit", v, pk, 0, "", None, OK, "", 0, "", <<>>)
                   /\ UNCHANGED posts
                \/ \E form \in forms :
                   /\ posts' = [posts EXCEPT ![pk] = PostUpdateView_form_valid(v, form)]
                   /\ resp' = Response("post_edit", v, pk, 0, "", None, Redirect,
                                       "absolute_url", pk, "", <<>>)
    /\ UNCHANGED <<users, comments, nextPost, nextComment, now>>

\* Deleting a post deletes its comments (the foreign key cascades).
Cascade(cs, pk) == [c \in {x \in DOMAIN cs : cs[x].post # pk} |-> cs[c]]

Without(f, k) == [x \in DOMAIN f \ {k} |-> f[x]]

\* POST /posts/<pk>/delete/ : PostDeleteView
PostDelete ==
    /\ \E v \in Viewers, pk \in PostIds :
         LET g == PostGate(posts, v, pk) IN
            CASE g = Login ->
                   /\ resp' = Response("post_delete", v, pk, 0, "", None, Redirect, Login, 0, "", <<>>)
                   /\ UNCHANGED <<posts, comments>>
              [] g = Missing ->
                   /\ resp' = Response("post_delete", v, pk, 0, "", None, NotFound, "", 0, "", <<>>)
                   /\ UNCHANGED <<posts, comments>>
              [] g = ToDetail ->
                   /\ resp' = Response("post_delete", v, pk, 0, "", None, Redirect,
                                       "post_detail", PostGateTarget(pk), "", <<>>)
                   /\ UNCHANGED <<posts, comments>>
              [] g = Proceed ->
                   /\ posts' = Without(posts, pk)
                   /\ comments' = Cascade(comments, pk)
                   /\ resp' = Response("post_delete", v, pk, 0, "", None, Redirect,
                                       "post_list", 0, "", <<>>)
    /\ UNCHANGED <<users, nextPost, nextComment, now>>

\* ---------------------------------------------------------------- comments
\* CommentCreateView_form_valid taking the author the client sent.
CommentCreateView_form_valid_SentAuthor(v, pk, text, sent) ==
    [author |-> sent, post |-> pk, text |-> text]

\* The instance a valid CommentForm builds: the form has `text` only;
\* form_valid sets the requester and the post of the path.
CommentCreateView_form_valid(v, pk, text, sent) ==
    [author |-> v, post |-> pk, text |-> text]

\* POST /posts/<pk>/comment/ : CommentCreateView.  An invalid form is shown
\* again (200); form_valid looks the post up.
CommentCreate ==
    /\ \E v \in Viewers, pk \in PostIds, sent \in Users :
         IF v = Anon
         THEN /\ resp' = Response("comment_create", v, pk, 0, "", sent, Redirect, Login, 0, "", <<>>)
              /\ UNCHANGED <<comments, nextComment>>
         ELSE \/ /\ resp' = Response("comment_create", v, pk, 0, "", sent, OK, "", 0, "", <<>>)
                 /\ UNCHANGED <<comments, nextComment>>
              \/ /\ pk \notin DOMAIN posts
                 /\ resp' = Response("comment_create", v, pk, 0, "", sent, NotFound, "", 0, "", <<>>)
                 /\ UNCHANGED <<comments, nextComment>>
              \/ \E text \in CommentForm :
                 /\ pk \in DOMAIN posts
                 /\ nextComment <= MaxComments
                 /\ comments' = (nextComment :> CommentCreateView_form_valid(v, pk, text, sent))
                                   @@ comments
                 /\ nextComment' = nextComment + 1
                 /\ resp' = Response("comment_create", v, pk, nextComment, "", sent, Redirect,
                                     "post_detail", pk, "", <<>>)
    /\ UNCHANGED <<users, posts, nextPost, now>>

\* POST /posts/<post_pk>/edit_comment/<comment_pk>/ : CommentUpdateView
CommentUpdate ==
    /\ \E v \in Viewers, pk \in PostIds, cpk \in CommentIds :
         LET g == CommentGate(comments, v, pk, cpk) IN
         CASE g = Missing ->
                /\ resp' = Response("comment_edit", v, pk, cpk, "", None, NotFound, "", 0, "", <<>>)
                /\ UNCHANGED comments
           [] g = ToDetail ->
                /\ resp' = Response("comment_edit", v, pk, cpk, "", None, Redirect,
                                    "post_detail", CommentGateTarget(pk, cpk), "", <<>>)
                /\ UNCHANGED comments
           [] g = Login ->
                /\ resp' = Response("comment_edit", v, pk, cpk, "", None, Redirect, Login, 0, "", <<>>)
                /\ UNCHANGED comments
           [] g = Proceed ->
                \/ /\ resp' = Response("comment_edit", v, pk, cpk, "", None, OK, "", 0, "", <<>>)
                   /\ UNCHANGED comments
                \/ \E text \in CommentForm :
                   /\ comments' = [comments EXCEPT ![cpk].text = text]
                   /\ resp' = Response("comment_edit", v, pk, cpk, "", None, Redirect,
                                       "post_detail", pk, "", <<>>)
    /\ UNCHANGED <<users, posts, nextPost, nextComment, now>>

\* POST /posts/<post_pk>/delete_comment/<comment_pk>/ : CommentDeleteView
CommentDelete ==
    /\ \E v \in Viewers, pk \in PostIds, cpk \in CommentIds :
         LET g == CommentGate(comments, v, pk, cpk) IN
            CASE g = Missing ->
                   /\ resp' = Response("comment_delete", v, pk, cpk, "", None, NotFound, "", 0, "", <<>>)
                   /\ UNCHANGED comments
              [] g = ToDetail ->
                   /\ resp' = Response("comment_delete", v, pk, cpk, "", None, Redirect,
                                       "post_detail", CommentGateTarget(pk, cpk), "", <<>>)
                   /\ UNCHANGED comments
              [] g = Login ->
                   /\ resp' = Response("comment_delete", v, pk, cpk, "", None, Redirect, Login, 0, "", <<>>)
                   /\ UNCHANGED comments
              [] g = Proceed ->
                   /\ comments' = Without(comments, cpk)
                   /\ resp' = Response("comment_delete", v, pk, cpk, "", None, Redirect,
                                       "post_detail", pk, "", <<>>)
    /\ UNCHANGED <<users, posts, nextPost, nextComment, now>>

\* ----------------------------------------------------------------- profiles
\* The profile form is a ModelForm of User: a username another row holds
\* fails validate_unique.
ProfileFormValid(us, target, form) ==
    \A u \in Users \ {target} : us[u].username # form.username

\* ProfileUpdateView.get_object: the row the path's username names; the
\* requester is not consulted.
ProfileUpdateView_get_object(us, v, name) == UserByName(us, name)

\* POST /profile/<username>/edit/ : ProfileUpdateView
ProfileUpdate ==
    /\ \E v \in Viewers, name \in Names, form \in ProfileForm :
         IF v = Anon
         THEN /\ resp' = Response("profile_edit", v, 0, 0, name, None, Redirect, Login, 0, "", <<>>)
              /\ UNCHANGED users
         ELSE IF ProfileUpdateView_get_object(users, v, name) = {}
         THEN /\ resp' = Response("profile_edit", v, 0, 0, name, None, NotFound, "", 0, "", <<>>)
              /\ UNCHANGED users
         ELSE \E target \in ProfileUpdateView_get_object(users, v, name) :
                IF ~ProfileFormValid(users, target, form)
                THEN /\ resp' = Response("profile_edit", v, 0, 0, name, None, OK, "", 0, "", <<>>)
                     /\ UNCHANGED users
                ELSE /\ users' = [users EXCEPT ![target] = form]
                     /\ resp' = Response("profile_edit", v, 0, 0, name, None, Redirect,
                                         "profile", 0, form.username, <<>>)
    /\ UNCHANGED <<posts, comments, nextPost, nextComment, now>>

\* ----------------------------------------------------------- specifications
\* Reading, and the posts read: every read view, the clock, the post views.
Next ==
    \/ Tick \/ PostList \/ CategoryList \/ PostDetail \/ Profile
    \/ PostCreate(PostForm) \/ PostUpdate(PostForm) \/ PostDelete

Spec == Init /\ [][Next]_vars

\* Writing: every view that creates, edits or deletes a post or a comment.
NextWrite ==
    \/ PostCreate(PlainPostForm) \/ PostUpdate(PlainPostForm) \/ PostDelete
    \/ CommentCreate \/ CommentUpdate \/ CommentDelete

SpecWrite == Init /\ [][NextWrite]_vars

\* Profiles: the profile views, and the post views a username decides.
NextProfile ==
    \/ ProfileUpdate \/ Profile \/ PostCreate(DraftPostForm) \/ PostDetail

SpecProfile == Init /\ [][NextProfile]_vars

\* ================================================================== claims
Range(s) == {s[i] : i \in 1..Len(s)}

\* s lists rows of ps, none twice, by pub_date descending.
ListedNewestFirst(ps, s) ==
    /\ Range(s) \subseteq DOMAIN ps
    /\ Cardinality(Range(s)) = Len(s)
    /\ \A i, j \in 1..Len(s) : i < j => ps[s[i]].pub_date >= ps[s[j]].pub_date

\* The publish gating as the specification words it: published, pub_date not
\* after now, and no category or a published one.
PublicAsStated(p) ==
    /\ posts[p].is_published
    /\ posts[p].pub_date <= now
    /\ (posts[p].category = None \/ Category[posts[p].category])

\* The publish gating of the code's listings: published, pub_date strictly
\* before now, and a category that is published.
PublicStrict(p) ==
    /\ posts[p].is_published
    /\ posts[p].pub_date < now
    /\ posts[p].category # None
    /\ Category[posts[p].category]

\* ---- C1
\* C1 as stated: the home listing holds a post iff it is published, its
\* pub_date <= now and it has no category or a published one; newest first.
C1_Original ==
    resp.view = "post_list" =>
        /\ \A p \in DOMAIN posts : p \in Range(resp.body) <=> PublicAsStated(p)
        /\ ListedNewestFirst(posts, resp.body)

\* C1 amended: the home listing holds a post iff it is published, its
\* pub_date is strictly before now and it has a category that is published;
\* the posts listed are ordered by pub_date descending.
C1_HomeListing ==
    resp.view = "post_list" =>
        /\ \A p \in DOMAIN posts : p \in Range(resp.body) <=> PublicStrict(p)
        /\ ListedNewestFirst(posts, resp.body)

\* The home listing shows two posts of different pub_date.
C1_Witness ==
    /\ resp.view = "post_list"
    /\ Len(resp.body) = 2
    /\ posts[resp.body[1]].pub_date > posts[resp.body[2]].pub_date

\* ---- C2
\* C2: the detail view of pk answers 200 iff the post exists and is published
\* or the viewer is authenticated and its author; it answers 404 otherwise.
C2_DetailReachable ==
    resp.view = "post_detail" =>
        IF /\ resp.pk \in DOMAIN posts
           /\ \/ posts[resp.pk].is_published
              \/ (resp.user # Anon /\ resp.user = posts[resp.pk].author)
        THEN resp.status = OK
        ELSE resp.status = NotFound

\* ---- C3
\* C3: a read view (home listing, category listing, detail) shows a post to a
\* viewer who is not its author only if the post is published, its pub_date
\* <= now and its category, if any, is published; the detail view always
\* shows a post to its author.  The listings answer every viewer alike.
C3_NonAuthorVisibility ==
    /\ (resp.view \in {"post_list", "category"} /\ resp.status = OK) =>
           \A p \in Range(resp.body) : PublicAsStated(p)
    /\ (resp.view = "post_detail" /\ resp.pk \in DOMAIN posts) =>
           IF resp.user = posts[resp.pk].author
           THEN resp.status = OK
           ELSE resp.status = OK => PublicAsStated(resp.pk)

\* ---- C4
\* A post edit or delete request, as the step that answers it.
PostWriteStep ==
    /\ resp' # resp
    /\ resp'.view \in {"post_edit", "post_delete"}
    /\ resp'.pk \in DOMAIN posts

\* C4 as stated: a post edit or delete by anyone but the post's author,
\* anonymous or not, is answered by a redirect to the post's detail view and
\* changes nothing.
C4_Original ==
    [][(PostWriteStep /\ resp'.user # posts[resp'.pk].author) =>
          /\ resp'.status = Redirect
          /\ resp'.to = "post_detail"
          /\ resp'.topk = resp'.pk
          /\ posts' = posts
          /\ comments' = comments]_vars

\* C4 amended: a post edit or delete by an authenticated user who is not the
\* post's author is answered by a redirect to the post's detail view, one by
\* an anonymous viewer by a redirect to the login page; both change nothing.
C4_PostGate ==
    [][(PostWriteStep /\ resp'.user # posts[resp'.pk].author) =>
          /\ resp'.status = Redirect
          /\ IF resp'.user = Anon
             THEN resp'.to = Login
             ELSE resp'.to = "post_detail" /\ resp'.topk = resp'.pk
          /\ posts' = posts
          /\ comments' = comments]_vars

\* Another user's edit of an existing post was redirected to its detail view.
C4_Witness ==
    /\ resp.view = "post_edit"
    /\ resp.user \in Users
    /\ resp.pk \in DOMAIN posts
    /\ resp.user # posts[resp.pk].author
    /\ resp.to = "post_detail"

\* ---- C5
\* A comment edit or delete request naming a comment of the stated post.
CommentWriteStep ==
    /\ resp' # resp
    /\ resp'.view \in {"comment_edit", "comment_delete"}
    /\ resp'.cpk \in DOMAIN comments
    /\ comments[resp'.cpk].post = resp'.pk

\* C5: an edit or delete of comment c of post p goes through iff the
\* requester is c's author; anyone else is redirected to the detail view of
\* p and c is neither changed nor deleted.
C5_CommentGate ==
    [][CommentWriteStep =>
          IF resp'.user = comments[resp'.cpk].author
          THEN \/ resp'.status = OK
               \/ /\ resp'.view = "comment_delete"
                  /\ resp'.cpk \notin DOMAIN comments'
               \/ /\ resp'.view = "comment_edit"
                  /\ resp'.cpk \in DOMAIN comments'
          ELSE /\ resp'.status = Redirect
               /\ resp'.to = "post_detail"
               /\ resp'.topk = resp'.pk
               /\ comments' = comments]_vars

\* ---- C6
\* C6: a comment edit or delete whose comment_pk names no comment of the
\* stated post is answered 404 for every requester, and changes nothing.
C6_CommentLookup ==
    [][(/\ resp' # resp
        /\ resp'.view \in {"comment_edit", "comment_delete"}
        /\ \/ resp'.cpk \notin DOMAIN comments
           \/ comments[resp'.cpk].post # resp'.pk) =>
          /\ resp'.status = NotFound
          /\ comments' = comments
          /\ posts' = posts]_vars

\* The author of a comment asked to edit it under another post and got 404.
C6_Witness ==
    /\ resp.view = "comment_edit"
    /\ resp.status = NotFound
    /\ resp.cpk \in DOMAIN comments
    /\ comments[resp.cpk].post # resp.pk
    /\ comments[resp.cpk].author = resp.user

\* ---- C7
\* C7: an anonymous create request creates nothing; a row that appears was
\* created by the create view of its kind, for an authenticated requester,
\* with the requester as author whatever author the client sent; a new
\* comment's post is the post of the request path.
C7_CreateAuthor ==
    [][/\ (resp'.view \in {"post_create", "comment_create"} /\ resp'.user = Anon) =>
              (posts' = posts /\ comments' = comments)
       /\ \A p \in DOMAIN posts' \ DOMAIN posts :
              /\ resp'.view = "post_create"
              /\ resp'.user \in Users
              /\ posts'[p].author = resp'.user
       /\ \A c \in DOMAIN comments' \ DOMAIN comments :
              /\ resp'.view = "comment_create"
              /\ resp'.user \in Users
              /\ comments'[c].author = resp'.user
              /\ comments'[c].post = resp'.pk]_vars

\* A comment was created on another user's post by a requester whose
\* submission named another user as author.
C7_Witness ==
    /\ resp.view = "comment_create"
    /\ resp.status = Redirect
    /\ resp.cpk \in DOMAIN comments
    /\ resp.author # resp.user
    /\ comments[resp.cpk].author = resp.user
    /\ comments[resp.cpk].post = resp.pk
    /\ posts[resp.pk].author # resp.user

\* ---- C8
\* C8: a profile edit request of an authenticated viewer changes no field of
\* any other user.
C8_OwnProfileOnly ==
    [][(resp' # resp /\ resp'.view = "profile_edit" /\ resp'.user \in Users) =>
          \A u \in Users \ {resp'.user} : users'[u] = users[u]]_vars

\* ---- C9
\* C9: the profile listing of an existing user holds exactly the posts whose
\* author is that user, whatever their publish gating, ordered by pub_date
\* descending; a username of no user is answered 404.
C9_ProfileListing ==
    resp.view = "profile" =>
        IF \E u \in Users : users[u].username = resp.name
        THEN /\ resp.status = OK
             /\ \A u \in Users : users[u].username = resp.name =>
                    Range(resp.body) = {p \in DOMAIN posts : posts[p].author = u}
             /\ ListedNewestFirst(posts, resp.body)
        ELSE resp.status = NotFound

\* A profile lists two posts of different pub_date, one of them unpublished.
C9_Witness ==
    /\ resp.view = "profile"
    /\ Len(resp.body) = 2
    /\ posts[resp.body[1]].pub_date > posts[resp.body[2]].pub_date
    /\ \E i \in 1..2 : ~posts[resp.body[i]].is_published

\* ---- C10
\* C10: no request changes the author of a post, or the author or the post of
\* a comment; a post or comment whose content changes was changed by a
\* request of its author; a primary key is never handed out twice, so a row
\* keeps the references it was created with.
C10_ReferencesImmutable ==
    [][/\ \A p \in DOMAIN posts \cap DOMAIN posts' :
              /\ posts'[p].author = posts[p].author
              /\ posts'[p] # posts[p] =>
                     (resp'.view = "post_edit" /\ resp'.user = posts[p].author)
       /\ \A c \in DOMAIN comments \cap DOMAIN comments' :
              /\ comments'[c].author = comments[c].author
              /\ comments'[c].post = comments[c].post
              /\ comments'[c] # comments[c] =>
                     (resp'.view = "comment_edit" /\ resp'.user = comments[c].author)
       /\ DOMAIN posts' \ DOMAIN posts \subseteq {nextPost}
       /\ DOMAIN comments' \ DOMAIN comments \subseteq {nextComment}
       /\ nextPost' >= nextPost /\ nextComment' >= nextComment
       /\ \A p \in DOMAIN posts' : p < nextPost'
       /\ \A c \in DOMAIN comments' : c < nextComment']_vars

\* An author's edit changed the text of a post that carries a comment of
\* another user.
C10_Witness ==
    /\ resp.view = "post_edit"
    /\ resp.to = "absolute_url"
    /\ posts[resp.pk].text = "t2"
    /\ \E c \in DOMAIN comments :
          comments[c].post = resp.pk /\ comments[c].author # posts[resp.pk].author

====
